---- MODULE Spec2Model ----
(***************************************************************************)
(* Model of the ElevenLabs utilities: the agent classifier, the agent      *)
(* catalog (AgentConnection), the conversation aggregator                   *)
(* (ConversationConnection) and the bulk field updater                      *)
(* (DataCollectionUpdater), together with the remote platform they call.    *)
(*                                                                         *)
(* Python semantics kept by the model:                                      *)
(*  - a container written in a class body (agents = {}, parameters = {},    *)
(*    accepted_agent_ids = [] ...) is ONE object owned by the class; an     *)
(*    instance that only mutates it (append, extend, d[k] = v) mutates the  *)
(*    class's object, an instance that assigns the attribute (self.x = ...) *)
(*    gets an attribute of its own;                                         *)
(*  - a str is a sequence of one-character strings;                         *)
(*  - a dict is a mapping plus the insertion order of its keys.             *)
(***************************************************************************)
EXTENDS Integers, Sequences, FiniteSets, TLC

(***************************************************************************)
(* Bounds of the model.                                                     *)
(***************************************************************************)
MaxAggregators == 2
MaxUpdaters == 1
MaxCatalogs == 2
MaxBuilds == 2
MaxUpdates == 1
MaxAccepted == 2
MaxSelected == 3
MaxDownloaders == 1
MaxToggles == 1
MaxTokens == 3
MaxSeconds == 6060

(***************************************************************************)
(* Python values.                                                           *)
(***************************************************************************)
Range(s) == {s[k] : k \in 1..Len(s)}

\* the empty dict {}
EmptyDict == [keys |-> <<>>, val |-> <<>>]

\* k in d
HasKey(d, k) == k \in Range(d.keys)

\* d[k] = v  (an existing key keeps its position)
DictSet(d, k, v) ==
    IF HasKey(d, k)
    THEN [keys |-> d.keys, val |-> [j \in 1..Len(d.keys) |-> IF d.keys[j] = k THEN v ELSE d.val[j]]]
    ELSE [keys |-> Append(d.keys, k), val |-> Append(d.val, v)]

\* d[k]  (only used where k in d)
DictGet(d, k) == d.val[CHOOSE j \in 1..Len(d.keys) : d.keys[j] = k]

\* set(d.keys())
DictKeys(d) == Range(d.keys)

(***************************************************************************)
(* Strings: a str is the sequence of its characters.                        *)
(***************************************************************************)
LowerChar(c) ==
    CASE c = "A" -> "a" [] c = "B" -> "b" [] c = "C" -> "c" [] c = "E" -> "e"
      [] c = "F" -> "f" [] c = "H" -> "h" [] c = "I" -> "i" [] c = "L" -> "l"
      [] c = "M" -> "m" [] c = "N" -> "n" [] c = "O" -> "o" [] c = "R" -> "r"
      [] c = "S" -> "s" [] c = "T" -> "t" [] c = "Í" -> "í" [] OTHER -> c

\* str.lower()
Lower(s) == [k \in 1..Len(s) |-> LowerChar(s[k])]

\* sub in s
Contains(s, sub) ==
    \E k \in 0..(Len(s) - Len(sub)) :
        \A j \in 1..Len(sub) : s[k + j] = sub[j]

(***************************************************************************)
(* common/enums.py                                                          *)
(***************************************************************************)
\* the members of the Enum, in definition order
AgentGroup ==
    <<"ELENA", "ELENA_AFFA", "ELENA_NOAFFA", "ELENA_BANNER", "MARIA", "ARTESAN", "COACH", "OTHER">>

\* member.value
GroupValue(g) ==
    CASE g = "ELENA" -> "Elena"
      [] g = "ELENA_AFFA" -> "Elena AFFA"
      [] g = "ELENA_NOAFFA" -> "Elena NOAFFA"
      [] g = "ELENA_BANNER" -> "Elena Banner"
      [] g = "MARIA" -> "María"
      [] g = "ARTESAN" -> "Artesan"
      [] g = "COACH" -> "Coach"
      [] g = "OTHER" -> "Other"

VariableType == <<"STRING", "BOOLEAN", "FLOAT", "INTEGER">>

VariableTypeValue(t) ==
    CASE t = "STRING" -> "string"
      [] t = "BOOLEAN" -> "boolean"
      [] t = "FLOAT" -> "number"
      [] t = "INTEGER" -> "integer"

(***************************************************************************)
(* helpers/agent_group_selector.py                                          *)
(***************************************************************************)
\* {group.value: [] for group in AgentGroup}
generate_dictionary_keys == [v \in {GroupValue(g) : g \in Range(AgentGroup)} |-> <<>>]

kw_elena == <<"e", "l", "e", "n", "a">>
kw_affa == <<"a", "f", "f", "a">>
kw_noaffa == <<"n", "o", "a", "f", "f", "a">>
kw_banner == <<"b", "a", "n", "n", "e", "r">>
kw_maria_accent == <<"m", "a", "r", "í", "a">>
kw_maria == <<"m", "a", "r", "i", "a">>
kw_coach == <<"c", "o", "a", "c", "h">>
kw_artesan == <<"a", "r", "t", "e", "s", "a", "n">>

\* a classifier that gives ELENA_AFFA whenever the name has "affa"
get_agent_groups_affa_anywhere(agent_name) ==
    LET name == Lower(agent_name)
    IN  IF Contains(name, kw_elena)
        THEN <<"ELENA">>
             \o (IF Contains(name, kw_affa) THEN <<"ELENA_AFFA">> ELSE <<>>)
             \o (IF Contains(name, kw_noaffa) THEN <<"ELENA_NOAFFA">> ELSE <<>>)
             \o (IF Contains(name, kw_banner) THEN <<"ELENA_BANNER">> ELSE <<>>)
        ELSE IF Contains(name, kw_maria_accent) \/ Contains(name, kw_maria) THEN <<"MARIA">>
        ELSE IF Contains(name, kw_coach) THEN <<"COACH">>
        ELSE IF Contains(name, kw_artesan) THEN <<"ARTESAN">>
        ELSE <<"OTHER">>

\* a classifier that looks for "coach" before "maria"
get_agent_groups_coach_first(agent_name) ==
    LET name == Lower(agent_name)
    IN  IF Contains(name, kw_elena)
        THEN <<"ELENA">>
             \o (IF Contains(name, kw_affa) /\ ~Contains(name, kw_noaffa) THEN <<"ELENA_AFFA">> ELSE <<>>)
             \o (IF Contains(name, kw_noaffa) THEN <<"ELENA_NOAFFA">> ELSE <<>>)
             \o (IF Contains(name, kw_banner) THEN <<"ELENA_BANNER">> ELSE <<>>)
        ELSE IF Contains(name, kw_coach) THEN <<"COACH">>
        ELSE IF Contains(name, kw_maria_accent) \/ Contains(name, kw_maria) THEN <<"MARIA">>
        ELSE IF Contains(name, kw_artesan) THEN <<"ARTESAN">>
        ELSE <<"OTHER">>

\* a classifier without the final else: no group when no keyword matches
get_agent_groups_without_fallback(agent_name) ==
    LET name == Lower(agent_name)
    IN  IF Contains(name, kw_elena)
        THEN <<"ELENA">>
             \o (IF Contains(name, kw_affa) /\ ~Contains(name, kw_noaffa) THEN <<"ELENA_AFFA">> ELSE <<>>)
             \o (IF Contains(name, kw_noaffa) THEN <<"ELENA_NOAFFA">> ELSE <<>>)
             \o (IF Contains(name, kw_banner) THEN <<"ELENA_BANNER">> ELSE <<>>)
        ELSE IF Contains(name, kw_maria_accent) \/ Contains(name, kw_maria) THEN <<"MARIA">>
        ELSE IF Contains(name, kw_coach) THEN <<"COACH">>
        ELSE IF Contains(name, kw_artesan) THEN <<"ARTESAN">>
        ELSE <<>>

\* the list of AgentGroup members of an agent name
get_agent_groups(agent_name) ==
    LET name == Lower(agent_name)
    IN  IF Contains(name, kw_elena)
        THEN <<"ELENA">>
             \o (IF Contains(name, kw_affa) /\ ~Contains(name, kw_noaffa) THEN <<"ELENA_AFFA">> ELSE <<>>)
             \o (IF Contains(name, kw_noaffa) THEN <<"ELENA_NOAFFA">> ELSE <<>>)
             \o (IF Contains(name, kw_banner) THEN <<"ELENA_BANNER">> ELSE <<>>)
        ELSE IF Contains(name, kw_maria_accent) \/ Contains(name, kw_maria) THEN <<"MARIA">>
        ELSE IF Contains(name, kw_coach) THEN <<"COACH">>
        ELSE IF Contains(name, kw_artesan) THEN <<"ARTESAN">>
        ELSE <<"OTHER">>

\* the same groups as their values
get_agent_groups_as_strings(agent_name) ==
    LET agent_groups == get_agent_groups(agent_name)
    IN  [k \in 1..Len(agent_groups) |-> GroupValue(agent_groups[k])]

\* for group in groups: d[group.value].append(x)
AppendToGroups(d, groups, x) ==
    [v \in DOMAIN d |->
        LET n == Cardinality({k \in 1..Len(groups) : GroupValue(groups[k]) = v})
        IN  IF n = 0 THEN d[v] ELSE d[v] \o [k \in 1..n |-> x]]

(***************************************************************************)
(* The remote platform (the ElevenLabs client's endpoints).                 *)
(***************************************************************************)
NameElenaAffa == <<"E", "l", "e", "n", "a", " ", "A", "F", "F", "A">>
NameMaria == <<"M", "a", "r", "i", "a">>
NameSoporte == <<"S", "o", "p", "o", "r", "t", "e">>

\* the agents the platform may hold: agents.list() answers one of these
AgentLists ==
    { << [agent_id |-> "a1", name |-> NameElenaAffa],
         [agent_id |-> "a2", name |-> NameMaria] >>,
      << [agent_id |-> "a1", name |-> NameElenaAffa],
         [agent_id |-> "a3", name |-> NameSoporte] >> }

AgentIds == {"a1", "a2", "a3"}

OldDefinition == [type |-> "string", description |-> "old"]

\* platform_settings.data_collection of each agent before any update
InitialDataCollection ==
    [a \in AgentIds |->
        CASE a = "a1" -> [f \in {"f1"} |-> OldDefinition]
          [] a = "a2" -> [f \in {"f1", "f2"} |-> OldDefinition]
          [] OTHER -> [f \in {} |-> OldDefinition]]

\* conversation ids are strings
c1 == <<"c", "1">>
c2 == <<"c", "2">>
c3 == <<"x">>

Conv(id, agent_id, agent_name) ==
    [conversation_id |-> id, agent_id |-> agent_id, agent_name |-> agent_name]

Page(convs, has_more, next_cursor) ==
    [conversations |-> convs, has_more |-> has_more, next_cursor |-> next_cursor]

\* the conversations the platform may hold, as the pages it serves
Listings ==
    { << <<Conv(c1, "a1", NameElenaAffa), Conv(c2, "a2", NameMaria)>> >>,
      << <<Conv(c1, "a1", NameElenaAffa)>>,
         <<Conv(c2, "a3", NameSoporte), Conv(c3, "a1", NameElenaAffa)>> >> }

(***************************************************************************)
(* State.                                                                   *)
(***************************************************************************)
VARIABLES
    \* the remote platform
    remote_agents,              \* what agents.list() answers
    remote_pages,               \* the pages conversations.list() serves
    remote_data_collection,     \* agent id -> the agent's data-collection mapping
    \* class AgentConnection: the containers of the class body
    agents,                     \* agent id -> agent detail
    agents_ids,                 \* list of agent ids
    \* class ConversationConnection: the containers of the class body
    parameters,                 \* request parameter name -> value
    accepted_agent_ids,         \* list of agent ids
    conversations,              \* dict conversation id -> summary record
    conversation_ids,           \* list of conversation ids
    conversation_ids_per_agent_id,  \* agent id -> conversation id
    \* the ConversationConnection instances, in order of construction
    connections,
    \* class DataCollectionUpdater: the list of the class body
    updater_agent_ids,
    \* the DataCollectionUpdater instances, in order of construction
    updaters,
    \* the calls received by the platform during the most recent build() / update()
    requests,
    update_calls,
    \* how many AgentConnection(), build() and update() calls were made
    catalogs,
    builds,
    updates,
    \* the remote platform: conversation id -> what conversations.get() answers
    remote_details,
    \* class ConversationDownloader: the list of the class body
    conversation_details,
    \* the ConversationDownloader instances, in order of construction
    downloaders,
    \* the conversations.get() calls received during the most recent downloader build()
    detail_requests,
    \* how many toggle_* calls were made
    toggles,
    \* a call of get_agent_groups: its argument and what it returned (<<>> before
    \* the call returns, <<value>> after; so for the two calls below)
    arg_agent_name,
    ret_groups,
    \* a call of seconds_to_timestamp: its argument and what it returned
    arg_seconds,
    ret_timestamp,
    \* a call of process_dynamic_variables: the remote record's mapping, before
    \* and after the call, and what the call returned
    arg_raw_details,
    ret_dynamic_variables

vars ==
    << remote_agents, remote_pages, remote_data_collection, agents, agents_ids,
       parameters, accepted_agent_ids, conversations, conversation_ids,
       conversation_ids_per_agent_id, connections, updater_agent_ids, updaters,
       requests, update_calls, catalogs, builds, updates,
       remote_details, conversation_details, downloaders, detail_requests, toggles,
       arg_agent_name, ret_groups, arg_seconds, ret_timestamp, arg_raw_details, ret_dynamic_variables >>

downloaderVars == << remote_details, conversation_details, downloaders, detail_requests, toggles >>
helperVars == << arg_agent_name, ret_groups, arg_seconds, ret_timestamp, arg_raw_details, ret_dynamic_variables >>

remoteVars == << remote_agents, remote_pages >>
catalogVars == << agents, agents_ids >>
aggregatorVars ==
    << parameters, accepted_agent_ids, conversations, conversation_ids,
       conversation_ids_per_agent_id, connections, requests, builds >>
updaterVars == << updater_agent_ids, updaters, update_calls, updates >>

\* d[k] = v on a mapping without order
MapSet(d, k, v) == [x \in DOMAIN d \cup {k} |-> IF x = k THEN v ELSE d[x]]

(***************************************************************************)
(* connections/agent_connection.py                                          *)
(***************************************************************************)
\* client.conversational_ai.agents.get(agent_id=...)
RemoteGetAgent(agent) ==
    [agent_id |-> agent.agent_id, name |-> agent.name,
     data_collection |-> remote_data_collection[agent.agent_id]]

\* the instance's group index after the first m agents of the response
RECURSIVE GroupIndex(_, _)
GroupIndex(response, m) ==
    IF m = 0
    THEN generate_dictionary_keys
    ELSE AppendToGroups(GroupIndex(response, m - 1),
                        get_agent_groups(response[m].name), response[m].agent_id)

\* the class's agents dict after the first m agents of the response
RECURSIVE AgentsAfter(_, _)
AgentsAfter(response, m) ==
    IF m = 0
    THEN agents
    ELSE MapSet(AgentsAfter(response, m - 1), response[m].agent_id, RemoteGetAgent(response[m]))

\* AgentConnection(): fail = 0, no remote call fails; fail = k in 1..n, the
\* detail fetch of the k-th listed agent fails; fail = n + 1, agents.list() fails.
\* Gives the class's containers afterwards and the new instance (if any).
AgentConnectionInit(fail) ==
    LET response == remote_agents
        n == Len(response)
        m == IF fail = 0 THEN n ELSE IF fail = n + 1 THEN 0 ELSE fail - 1
    IN  [raised |-> fail # 0,
         agents |-> AgentsAfter(response, m),
         agents_ids |-> agents_ids \o [k \in 1..m |-> response[k].agent_id],
         instance |-> [agent_groups_ids |-> GroupIndex(response, m)]]

FailPoints == 0..(Len(remote_agents) + 1)

\* self.agents
get_all_agents(connection) == agents

\* self.agents_ids
get_all_agent_ids(connection) == agents_ids

\* self.agent_groups_ids[agent_group.value]
get_agent_group_ids(connection, agent_group) == connection.agent_groups_ids[GroupValue(agent_group)]

(***************************************************************************)
(* connections/conversation_connection.py                                   *)
(***************************************************************************)
\* ConversationConnection(): only self.client is assigned; every container
\* attribute of the new instance is the class's
NewConnection ==
    /\ Len(connections) < MaxAggregators
    /\ connections' = Append(connections,
                             [agent_connection |-> <<>>,
                              conversation_ids_per_agent_group |-> <<>>])
    /\ UNCHANGED << remoteVars, downloaderVars, helperVars, remote_data_collection, catalogVars, parameters,
                    accepted_agent_ids, conversations, conversation_ids,
                    conversation_ids_per_agent_id, requests, builds, updaterVars, catalogs >>

\* client.conversational_ai.conversations.list(**params): a cursor is the number
\* of the page it was handed out with; no cursor asks for the first page
RemoteListConversations(params) ==
    LET page == IF "cursor" \in DOMAIN params THEN params["cursor"] + 1 ELSE 1
        last_page == Len(remote_pages)
    IN  IF page <= last_page
        THEN Page(remote_pages[page], page < last_page, IF page < last_page THEN page ELSE 0)
        ELSE Page(<<>>, FALSE, 0)

\* the record build() stores for a listed conversation
ConversationInfo(conversation) ==
    [conversation_id |-> conversation.conversation_id,
     agent_id |-> conversation.agent_id,
     agent_name |-> conversation.agent_name,
     agent_groups |-> get_agent_groups_as_strings(conversation.agent_name)]

\* a loop body that keeps the first conversation id stored for an agent
IndexConversationKeepingFirst(st, conversation) ==
    IF Len(accepted_agent_ids) > 0 /\ conversation.agent_id \notin Range(accepted_agent_ids)
    THEN st
    ELSE [st EXCEPT
            !.conversations = DictSet(@, conversation.conversation_id, ConversationInfo(conversation)),
            !.conversation_ids = Append(@, conversation.conversation_id),
            !.conversation_ids_per_agent_id =
                IF conversation.agent_id \in DOMAIN @
                THEN @
                ELSE MapSet(@, conversation.agent_id, conversation.conversation_id),
            !.conversation_ids_per_agent_group =
                AppendToGroups(@, get_agent_groups(conversation.agent_name), conversation.conversation_id)]

\* the body of "for conversation in response.conversations" for one conversation
IndexConversation(st, conversation) ==
    IF Len(accepted_agent_ids) > 0 /\ conversation.agent_id \notin Range(accepted_agent_ids)
    THEN st
    ELSE [st EXCEPT
            !.conversations = DictSet(@, conversation.conversation_id, ConversationInfo(conversation)),
            !.conversation_ids = Append(@, conversation.conversation_id),
            !.conversation_ids_per_agent_id = MapSet(@, conversation.agent_id, conversation.conversation_id),
            !.conversation_ids_per_agent_group =
                AppendToGroups(@, get_agent_groups(conversation.agent_name), conversation.conversation_id)]

RECURSIVE IndexPage(_, _, _)
IndexPage(st, page, k) ==
    IF k = 0 THEN st ELSE IndexConversation(IndexPage(st, page, k - 1), page[k])

\* a build that asks for one page only and never follows has_more
BuildLoopFirstPageOnly(st, has_more, next_cursor) ==
    LET response == RemoteListConversations(st.parameters)
        sent == [st EXCEPT !.requests = Append(@, st.parameters)]
    IN  IndexPage(sent, response.conversations, Len(response.conversations))

\* the "while has_more" loop; next_cursor = 0 stands for None
RECURSIVE BuildLoop(_, _, _)
BuildLoop(st, has_more, next_cursor) ==
    IF ~has_more
    THEN st
    ELSE LET params == IF next_cursor # 0
                       THEN MapSet(st.parameters, "cursor", next_cursor)
                       ELSE st.parameters
             response == RemoteListConversations(params)
             sent == [st EXCEPT !.parameters = params, !.requests = Append(@, params)]
         IN  BuildLoop(IndexPage(sent, response.conversations, Len(response.conversations)),
                       response.has_more, response.next_cursor)

\* a build that starts from the class's empty per-group dictionary instead of
\* one with a key for every group
BuildResultWithoutGroupKeys ==
    BuildLoop([parameters |-> MapSet(parameters, "page_size", 100),
               conversations |-> conversations,
               conversation_ids |-> conversation_ids,
               conversation_ids_per_agent_id |-> conversation_ids_per_agent_id,
               conversation_ids_per_agent_group |-> <<>>,
               requests |-> <<>>],
              TRUE, 0)

\* the state build() leaves: the group keys are created, then the loop runs
BuildResult ==
    BuildLoop([parameters |-> MapSet(parameters, "page_size", 100),
               conversations |-> conversations,
               conversation_ids |-> conversation_ids,
               conversation_ids_per_agent_id |-> conversation_ids_per_agent_id,
               conversation_ids_per_agent_group |-> generate_dictionary_keys,
               requests |-> <<>>],
              TRUE, 0)

\* connection.build()
Build(i) ==
    /\ builds < MaxBuilds
    /\ builds' = builds + 1
    /\ LET st == BuildResult
       IN  /\ parameters' = st.parameters
           /\ conversations' = st.conversations
           /\ conversation_ids' = st.conversation_ids
           /\ conversation_ids_per_agent_id' = st.conversation_ids_per_agent_id
           /\ connections' = [connections EXCEPT
                 ![i].conversation_ids_per_agent_group = st.conversation_ids_per_agent_group]
           /\ requests' = st.requests
    /\ UNCHANGED << remoteVars, downloaderVars, helperVars, remote_data_collection, catalogVars, accepted_agent_ids,
                    updaterVars, catalogs >>

\* connection.set_accepted_agent_ids(agent_ids)
SetAcceptedAgentIds(i, agent_ids) ==
    /\ Len(accepted_agent_ids) + Len(agent_ids) <= MaxAccepted
    /\ accepted_agent_ids' = accepted_agent_ids \o agent_ids
    /\ UNCHANGED << remoteVars, downloaderVars, helperVars, remote_data_collection, catalogVars, parameters,
                    conversations, conversation_ids, conversation_ids_per_agent_id,
                    connections, requests, builds, updaterVars, catalogs >>

\* the ids the loop over agent_groups appends to the accepted list
RECURSIVE GroupIdsOf(_, _, _)
GroupIdsOf(connection, agent_groups, k) ==
    IF k = 0
    THEN <<>>
    ELSE GroupIdsOf(connection, agent_groups, k - 1)
         \o get_agent_group_ids(connection, agent_groups[k])

\* connection.set_accepted_agent_groups(agent_groups); fail as in AgentConnectionInit
SetAcceptedAgentGroups(i, agent_groups, fail) ==
    LET first == connections[i].agent_connection = <<>>
        made == AgentConnectionInit(fail)
        connection == IF first THEN made.instance ELSE connections[i].agent_connection[1]
        group_ids == GroupIdsOf(connection, agent_groups, Len(agent_groups))
    IN  /\ first => catalogs < MaxCatalogs
        /\ ~first => fail = 0
        /\ IF first
           THEN /\ agents' = made.agents
                /\ agents_ids' = made.agents_ids
                /\ catalogs' = catalogs + 1
           ELSE UNCHANGED << agents, agents_ids, catalogs >>
        /\ IF first /\ made.raised
           THEN UNCHANGED << connections, accepted_agent_ids >>
           ELSE /\ Len(accepted_agent_ids) + Len(group_ids) <= MaxAccepted
                /\ connections' = [connections EXCEPT ![i].agent_connection = <<connection>>]
                /\ accepted_agent_ids' = accepted_agent_ids \o group_ids
        /\ UNCHANGED << remoteVars, downloaderVars, helperVars, remote_data_collection, parameters, conversations,
                        conversation_ids, conversation_ids_per_agent_id, requests, builds,
                        updaterVars >>

\* TimeHelper.date_to_unix(raw_date): a date is its day number since the epoch,
\* midnight taken in a UTC process
date_to_unix(raw_date) == raw_date * 86400

\* connection.set_start_date(start_date)
SetStartDate(i, start_date) ==
    /\ parameters' = MapSet(parameters, "call_start_after_unix", date_to_unix(start_date))
    /\ UNCHANGED << remoteVars, downloaderVars, helperVars, remote_data_collection, catalogVars, accepted_agent_ids,
                    conversations, conversation_ids, conversation_ids_per_agent_id,
                    connections, requests, builds, updaterVars, catalogs >>

\* connection.set_end_date(end_date)
SetEndDate(i, end_date) ==
    /\ parameters' = MapSet(parameters, "call_start_before_unix", date_to_unix(end_date))
    /\ UNCHANGED << remoteVars, downloaderVars, helperVars, remote_data_collection, catalogVars, accepted_agent_ids,
                    conversations, conversation_ids, conversation_ids_per_agent_id,
                    connections, requests, builds, updaterVars, catalogs >>

\* self.conversations
get_all_conversations_info(i) == conversations

\* self.conversation_ids
get_all_conversation_ids(i) == conversation_ids

\* what an accessor gives: a value, or the KeyError it raises
Returned(value) == [raised |-> FALSE, value |-> value]
KeyError == [raised |-> TRUE, value |-> <<>>]

\* self.conversation_ids_per_agent_id[agent_id]
get_conversation_ids_from_agent(i, agent_id) ==
    IF agent_id \in DOMAIN conversation_ids_per_agent_id
    THEN Returned(conversation_ids_per_agent_id[agent_id])
    ELSE KeyError

\* self.conversation_ids_per_agent_group[agent_group.value]
get_conversation_ids_from_agent_group(i, agent_group) ==
    IF GroupValue(agent_group) \in DOMAIN connections[i].conversation_ids_per_agent_group
    THEN Returned(connections[i].conversation_ids_per_agent_group[GroupValue(agent_group)])
    ELSE KeyError

\* [self.conversations[conv_id] for conv_id in ids]: raises at the first missing key
InfoOf(ids) ==
    IF \A k \in 1..Len(ids) : HasKey(conversations, ids[k])
    THEN Returned([k \in 1..Len(ids) |-> DictGet(conversations, ids[k])])
    ELSE KeyError

\* the loop runs over what get_conversation_ids_from_agent returns, which is one
\* conversation id: a str, whose elements are its characters (strings of length 1)
get_conversation_info_from_agent(i, agent_id) ==
    LET ids == get_conversation_ids_from_agent(i, agent_id)
    IN  IF ids.raised
        THEN KeyError
        ELSE InfoOf([k \in 1..Len(ids.value) |-> <<ids.value[k]>>])

\* the loop runs over the group's list of conversation ids
get_conversation_info_from_agent_group(i, agent_group) ==
    LET ids == get_conversation_ids_from_agent_group(i, agent_group)
    IN  IF ids.raised THEN KeyError ELSE InfoOf(ids.value)

(***************************************************************************)
(* processors/updaters/data_collection_updater.py                           *)
(***************************************************************************)
Unset == "<unset>"

\* the list self.agent_ids names: the class's list, or (after set_all_agents)
\* the very list object AgentConnection.agents_ids
SelectedAgentIds(updater) ==
    IF updater.agent_ids = "AgentConnection.agents_ids" THEN agents_ids ELSE updater_agent_ids

\* DataCollectionUpdater(): constructs its own AgentConnection
NewUpdater(fail) ==
    LET made == AgentConnectionInit(fail)
    IN  /\ Len(updaters) < MaxUpdaters
        /\ catalogs < MaxCatalogs
        /\ catalogs' = catalogs + 1
        /\ agents' = made.agents
        /\ agents_ids' = made.agents_ids
        /\ updaters' = IF made.raised
                       THEN updaters
                       ELSE Append(updaters,
                                   [connection |-> made.instance,
                                    variable_name |-> Unset,
                                    variable_type |-> Unset,
                                    variable_prompt |-> Unset,
                                    agent_ids |-> "DataCollectionUpdater.agent_ids"])
        /\ UNCHANGED << remoteVars, downloaderVars, helperVars, remote_data_collection, aggregatorVars,
                        updater_agent_ids, update_calls, updates >>

\* updater.set_variable_name(name)
SetVariableName(u, name) ==
    /\ updaters' = [updaters EXCEPT ![u].variable_name = name]
    /\ UNCHANGED << remoteVars, downloaderVars, helperVars, remote_data_collection, catalogVars, aggregatorVars,
                    updater_agent_ids, update_calls, updates, catalogs >>

\* updater.set_variable_type(_variable_type)
SetVariableType(u, variable_type) ==
    /\ updaters' = [updaters EXCEPT ![u].variable_type = VariableTypeValue(variable_type)]
    /\ UNCHANGED << remoteVars, downloaderVars, helperVars, remote_data_collection, catalogVars, aggregatorVars,
                    updater_agent_ids, update_calls, updates, catalogs >>

\* updater.set_variable_prompt(prompt)
SetVariablePrompt(u, prompt) ==
    /\ updaters' = [updaters EXCEPT ![u].variable_prompt = prompt]
    /\ UNCHANGED << remoteVars, downloaderVars, helperVars, remote_data_collection, catalogVars, aggregatorVars,
                    updater_agent_ids, update_calls, updates, catalogs >>

\* updater.set_agent_group(agent_group): extends, in place, the list self.agent_ids names
SetAgentGroup(u, agent_group) ==
    LET group_ids == get_agent_group_ids(updaters[u].connection, agent_group)
    IN  /\ Len(SelectedAgentIds(updaters[u])) + Len(group_ids) <= MaxSelected
        /\ IF updaters[u].agent_ids = "AgentConnection.agents_ids"
           THEN /\ agents_ids' = agents_ids \o group_ids
                /\ UNCHANGED updater_agent_ids
           ELSE /\ updater_agent_ids' = updater_agent_ids \o group_ids
                /\ UNCHANGED agents_ids
        /\ UNCHANGED << remoteVars, downloaderVars, helperVars, remote_data_collection, agents, aggregatorVars,
                        updaters, update_calls, updates, catalogs >>

\* updater.set_all_agents(): self.agent_ids becomes the list get_all_agent_ids() returns
SetAllAgents(u) ==
    /\ updaters' = [updaters EXCEPT ![u].agent_ids = "AgentConnection.agents_ids"]
    /\ UNCHANGED << remoteVars, downloaderVars, helperVars, remote_data_collection, catalogVars, aggregatorVars,
                    updater_agent_ids, update_calls, updates, catalogs >>

\* the state update() carries through its loop
UpdateState == [agents |-> agents, remote |-> remote_data_collection, calls |-> <<>>]

\* an update that pushes the new entry alone instead of the whole mapping
UpdateAgentNewEntryOnly(st, updater, agent_id, pushed) ==
    LET variable_settings == [type |-> updater.variable_type,
                              description |-> updater.variable_prompt]
        data_collection == [f \in {updater.variable_name} |-> variable_settings]
        platform_settings == [data_collection |-> data_collection]
    IN  [agents |-> [st.agents EXCEPT ![agent_id].data_collection = data_collection],
         remote |-> IF pushed
                    THEN [st.remote EXCEPT ![agent_id] = platform_settings.data_collection]
                    ELSE st.remote,
         calls |-> IF pushed
                   THEN Append(st.calls, [agent_id |-> agent_id,
                                          platform_settings |-> platform_settings])
                   ELSE st.calls]

\* the body of "for agent_id in self.agent_ids" for one agent: the cached
\* mapping is changed in place and pushed whole; pushed = FALSE when the
\* update call for this agent fails
UpdateAgent(st, updater, agent_id, pushed) ==
    LET agent == st.agents[agent_id]
        variable_settings == [type |-> updater.variable_type,
                              description |-> updater.variable_prompt]
        data_collection == MapSet(agent.data_collection, updater.variable_name, variable_settings)
        platform_settings == [data_collection |-> data_collection]
    IN  [agents |-> [st.agents EXCEPT ![agent_id].data_collection = data_collection],
         remote |-> IF pushed
                    THEN [st.remote EXCEPT ![agent_id] = platform_settings.data_collection]
                    ELSE st.remote,
         calls |-> IF pushed
                   THEN Append(st.calls, [agent_id |-> agent_id,
                                          platform_settings |-> platform_settings])
                   ELSE st.calls]

\* the loop over the first k selected agents; fail = 0, no update call fails;
\* fail = j, the update call for the j-th selected agent fails
RECURSIVE UpdateLoop(_, _, _, _)
UpdateLoop(updater, ids, k, fail) ==
    IF k = 0
    THEN UpdateState
    ELSE UpdateAgent(UpdateLoop(updater, ids, k - 1, fail), updater, ids[k], k # fail)

\* the updater has its variable name, type and prompt set
Configured(updater) ==
    /\ updater.variable_name # Unset
    /\ updater.variable_type # Unset
    /\ updater.variable_prompt # Unset

\* an update() that catches the failure of an update call and goes on with the
\* agents after it
UpdateCatchingFailures(u, fail) ==
    LET updater == updaters[u]
        ids == SelectedAgentIds(updater)
        st == UpdateLoop(updater, ids, Len(ids), fail)
    IN  /\ updates < MaxUpdates
        /\ updates' = updates + 1
        /\ fail \in 0..Len(ids)
        /\ Configured(updater) \/ ids = <<>>
        /\ agents' = st.agents
        /\ remote_data_collection' = st.remote
        /\ update_calls' = st.calls
        /\ UNCHANGED << remoteVars, downloaderVars, helperVars, agents_ids, aggregatorVars, updater_agent_ids,
                        updaters, catalogs >>

\* updater.update(): reading an attribute that was never set raises before any call
Update(u, fail) ==
    LET updater == updaters[u]
        ids == SelectedAgentIds(updater)
        st == UpdateLoop(updater, ids, IF fail = 0 THEN Len(ids) ELSE fail, fail)
    IN  /\ updates < MaxUpdates
        /\ updates' = updates + 1
        /\ fail \in 0..Len(ids)
        /\ IF Configured(updater) \/ ids = <<>>
           THEN /\ agents' = st.agents
                /\ remote_data_collection' = st.remote
                /\ update_calls' = st.calls
           ELSE /\ fail = 0
                /\ update_calls' = <<>>
                /\ UNCHANGED << agents, remote_data_collection >>
        /\ UNCHANGED << remoteVars, downloaderVars, helperVars, agents_ids, aggregatorVars, updater_agent_ids,
                        updaters, catalogs >>

(***************************************************************************)
(* helpers/time_helpers.py                                                  *)
(***************************************************************************)
Digit(d) ==
    CASE d = 0 -> "0" [] d = 1 -> "1" [] d = 2 -> "2" [] d = 3 -> "3" [] d = 4 -> "4"
      [] d = 5 -> "5" [] d = 6 -> "6" [] d = 7 -> "7" [] d = 8 -> "8" [] d = 9 -> "9"

\* the decimal digits of a non-negative int, most significant first
RECURSIVE Digits(_)
Digits(n) == IF n < 10 THEN <<Digit(n)>> ELSE Digits(n \div 10) \o <<Digit(n % 10)>>

\* a format that pads nothing: f"{n}"
FormatPlain(n) == Digits(n)

\* f"{n:02}" for a non-negative int: its digits, zero-filled on the left to width 2
Format02(n) ==
    LET digits == Digits(n)
    IN  IF Len(digits) < 2 THEN [k \in 1..(2 - Len(digits)) |-> "0"] \o digits ELSE digits

\* seconds_to_timestamp(seconds), seconds a non-negative int
seconds_to_timestamp(seconds) ==
    LET mm == seconds \div 60
        ss == seconds % 60
    IN  Format02(mm) \o <<":">> \o Format02(ss)

(***************************************************************************)
(* processors/downloaders/conversation_downloader.py                        *)
(*                                                                         *)
(* An attribute that may be None is a sequence: <<>> for None, <<v>> for    *)
(* the value v.  The keys of a dynamic-variables mapping are strings, kept  *)
(* as sequences of characters.                                              *)
(***************************************************************************)
key_system == <<"s", "y", "s", "t", "e", "m">>
key_email == <<"e", "m", "a", "i", "l">>
key_phone == <<"p", "h", "o", "n", "e">>
key_secret_user_id == <<"s", "e", "c", "r", "e", "t", "_", "u", "s", "e", "r", "_", "i", "d">>
key_secret_object_id == <<"s", "e", "c", "r", "e", "t", "_", "o", "b", "j", "e", "c", "t", "_", "i", "d">>

\* key.startswith(prefix)
startswith(key, prefix) ==
    /\ Len(key) >= Len(prefix)
    /\ SubSeq(key, 1, Len(prefix)) = prefix

\* d.pop(k) for a key of d: d without the key
DictPop(d, k) ==
    LET kept == {j \in 1..Len(d.keys) : d.keys[j] # k}
        at(m) == CHOOSE j \in kept : Cardinality({x \in kept : x < j}) = m - 1
    IN  [keys |-> [m \in 1..Cardinality(kept) |-> d.keys[at(m)]],
         val |-> [m \in 1..Cardinality(kept) |-> d.val[at(m)]]]

\* dynamic_variables.pop(key): KeyError when the key is not there
Pop(st, key) ==
    IF HasKey(st.dynamic_variables, key)
    THEN [st EXCEPT !.dynamic_variables = DictPop(@, key)]
    ELSE [st EXCEPT !.raised = TRUE]

\* a loop body that drops the system keys only
FilterKeySystemOnly(st, key) ==
    IF st.raised
    THEN st
    ELSE IF startswith(key, key_system) THEN Pop(st, key) ELSE st

\* the body of "for key in raw_dynamic_variables.keys()" for one key
FilterKey(st, key) ==
    IF st.raised
    THEN st
    ELSE LET popped == IF startswith(key, key_system) THEN Pop(st, key) ELSE st
         IN  IF ~popped.raised
                /\ (key = key_email \/ key = key_phone
                    \/ key = key_secret_user_id \/ key = key_secret_object_id)
             THEN Pop(popped, key)
             ELSE popped

RECURSIVE FilterKeys(_, _)
FilterKeys(st, k) ==
    IF k = 0 THEN st ELSE FilterKey(FilterKeys(st, k - 1), st.raw_dynamic_variables.keys[k])

\* the remote record has a dynamic-variables mapping
HasDynamicVariables(raw_details) ==
    /\ raw_details.conversation_initiation_client_data # <<>>
    /\ raw_details.conversation_initiation_client_data[1].dynamic_variables # <<>>

\* process_dynamic_variables(raw_details): what it returns (or that it raised)
\* and the mapping the remote record holds afterwards; the loop works on two
\* copies of that mapping
process_dynamic_variables(raw_details) ==
    IF ~HasDynamicVariables(raw_details)
    THEN [raised |-> FALSE, value |-> EmptyDict, raw_details |-> raw_details]
    ELSE LET mapping == raw_details.conversation_initiation_client_data[1].dynamic_variables[1]
             st == FilterKeys([mapping |-> mapping,
                               raw_dynamic_variables |-> mapping,
                               dynamic_variables |-> mapping,
                               raised |-> FALSE],
                              Len(mapping.keys))
         IN  [raised |-> st.raised,
              value |-> st.dynamic_variables,
              raw_details |->
                 [raw_details EXCEPT
                     !.conversation_initiation_client_data[1].dynamic_variables[1] = st.mapping]]

\* bool(dynamic_variables.get(key)): the key is there with a value that is not empty
Truthy(dynamic_variables, key) ==
    HasKey(dynamic_variables, key) /\ DictGet(dynamic_variables, key) # ""

\* d[k] = v when the condition holds
MapSetIf(d, condition, k, v) == IF condition THEN MapSet(d, k, v) ELSE d

\* the remote record's mapping has a non-empty value for the key
HasContact(raw_details, key) ==
    /\ HasDynamicVariables(raw_details)
    /\ Truthy(raw_details.conversation_initiation_client_data[1].dynamic_variables[1], key)

\* the value details[...] ends with: "" from the first four assignments, replaced
\* by the mapping's value when the record has a mapping and the key is truthy
ContactValue(raw_details, key) ==
    IF HasContact(raw_details, key)
    THEN DictGet(raw_details.conversation_initiation_client_data[1].dynamic_variables[1], key)
    ELSE ""

\* a process_basic_variables that sets a contact key only when the remote
\* record has it
process_basic_variables_when_present(details, raw_details) ==
    MapSetIf(
        MapSetIf(
            MapSetIf(
                MapSetIf(details, HasContact(raw_details, key_email),
                         "email", ContactValue(raw_details, key_email)),
                HasContact(raw_details, key_phone),
                "phone", ContactValue(raw_details, key_phone)),
            HasContact(raw_details, key_secret_user_id),
            "salesforce_user_id", ContactValue(raw_details, key_secret_user_id)),
        HasContact(raw_details, key_secret_object_id),
        "salesforce_object_id", ContactValue(raw_details, key_secret_object_id))

\* process_basic_variables(details, raw_details)
process_basic_variables(details, raw_details) ==
    MapSet(
        MapSet(
            MapSet(
                MapSet(details, "email", ContactValue(raw_details, key_email)),
                "phone", ContactValue(raw_details, key_phone)),
            "salesforce_user_id", ContactValue(raw_details, key_secret_user_id)),
        "salesforce_object_id", ContactValue(raw_details, key_secret_object_id))

\* process_summary(raw_details)
process_summary(raw_details) ==
    IF raw_details.analysis = <<>> \/ raw_details.analysis[1].transcript_summary = <<>>
    THEN ""
    ELSE raw_details.analysis[1].transcript_summary[1]

\* process_transcript(raw_details)
process_transcript(raw_details) ==
    [turn_index \in 1..Len(raw_details.transcript) |->
        LET turn == raw_details.transcript[turn_index]
        IN  [turn |-> turn_index,
             time |-> seconds_to_timestamp(turn.time_in_call_secs),
             role |-> turn.role,
             turn_agent_id |-> IF turn.agent_metadata # <<>> THEN turn.agent_metadata[1].agent_id ELSE "",
             message |-> turn.message]]

\* the dict the loop over the first k results builds: a later result with the
\* same criteria_id replaces an earlier one
RECURSIVE CriteriaOf(_, _)
CriteriaOf(results, k) ==
    IF k = 0
    THEN <<>>
    ELSE MapSet(CriteriaOf(results, k - 1), results[k].criteria_id,
                [result |-> results[k].result, rationale |-> results[k].rationale])

\* process_criteria(raw_details)
process_criteria(raw_details) ==
    IF raw_details.analysis = <<>> \/ raw_details.analysis[1].evaluation_criteria_results = <<>>
    THEN <<>>
    ELSE LET results == raw_details.analysis[1].evaluation_criteria_results[1]
         IN  CriteriaOf(results, Len(results))

\* the dict the loop over the first k results builds
RECURSIVE DataCollectionOf(_, _)
DataCollectionOf(results, k) ==
    IF k = 0
    THEN <<>>
    ELSE MapSet(DataCollectionOf(results, k - 1), results[k].data_collection_id,
                [value |-> results[k].value, rationale |-> results[k].rationale])

\* process_data_collection(raw_details)
process_data_collection(raw_details) ==
    IF raw_details.analysis = <<>> \/ raw_details.analysis[1].data_collection_results = <<>>
    THEN <<>>
    ELSE LET results == raw_details.analysis[1].data_collection_results[1]
         IN  DataCollectionOf(results, Len(results))

\* what the platform may hold about the conversations
key_system_time == <<"s", "y", "s", "t", "e", "m", "_", "_", "t", "i", "m", "e">>
key_campaign == <<"c", "a", "m", "p", "a", "i", "g", "n">>

Turn(time_in_call_secs, role, agent_metadata, message) ==
    [time_in_call_secs |-> time_in_call_secs, role |-> role,
     agent_metadata |-> agent_metadata, message |-> message]

\* a record with every block filled
DetailFull ==
    [conversation_initiation_client_data |->
        << [dynamic_variables |->
               << [keys |-> <<key_system_time, key_email, key_phone, key_secret_user_id, key_campaign>>,
                   val |-> <<"12:00", "a@b.com", "123", "u1", "v">>] >>] >>,
     analysis |->
        << [transcript_summary |-> <<"asked for a demo">>,
            evaluation_criteria_results |->
               << << [criteria_id |-> "k1", result |-> "success", rationale |-> "r1"] >> >>,
            data_collection_results |->
               << << [data_collection_id |-> "f1", value |-> "True", rationale |-> "r2"] >> >>] >>,
     transcript |-> << Turn(5, "agent", <<[agent_id |-> "a1"]>>, "hola"),
                       Turn(125, "user", <<>>, "si") >>]

\* a record without client data and without analysis
DetailBare ==
    [conversation_initiation_client_data |-> <<>>,
     analysis |-> <<>>,
     transcript |-> <<>>]

\* a record whose mapping has an empty email and no other contact key, and
\* whose analysis has no block
DetailPartial ==
    [conversation_initiation_client_data |->
        << [dynamic_variables |->
               << [keys |-> <<key_email, key_campaign>>, val |-> <<"", "v">>] >>] >>,
     analysis |->
        << [transcript_summary |-> <<>>,
            evaluation_criteria_results |-> <<>>,
            data_collection_results |-> <<>>] >>,
     transcript |-> << Turn(59, "agent", <<>>, "hola") >>]

\* a record with client data that has no dynamic-variables mapping
DetailNoVariables ==
    [conversation_initiation_client_data |-> << [dynamic_variables |-> <<>>] >>,
     analysis |-> <<>>,
     transcript |-> <<>>]

ConversationIds == {c1, c2, c3}

\* conversation id -> what conversations.get(conversation_id=...) answers
DetailsA ==
    [c \in ConversationIds |->
        CASE c = c1 -> DetailFull [] c = c2 -> DetailBare [] OTHER -> DetailPartial]

DetailsB ==
    [c \in ConversationIds |->
        CASE c = c1 -> DetailNoVariables [] c = c2 -> DetailPartial [] OTHER -> DetailFull]

RemoteDetails == {DetailsA, DetailsB}

\* ConversationDownloader(**kwargs): a key that is not given is <<>> (a list
\* or a date) or FALSE (a flag); fail as in AgentConnectionInit, for the
\* catalog set_accepted_agent_groups constructs
NewDownloader(kwargs, fail) ==
    LET with_groups == kwargs.agent_groups # <<>>
        made == AgentConnectionInit(fail)
        raised == with_groups /\ made.raised
        group_ids == GroupIdsOf(made.instance, kwargs.agent_groups, Len(kwargs.agent_groups))
        accepted == accepted_agent_ids \o kwargs.agent_ids
                       \o (IF with_groups /\ ~raised THEN group_ids ELSE <<>>)
        after_start == IF kwargs.start_date # <<>>
                       THEN MapSet(parameters, "call_start_after_unix", date_to_unix(kwargs.start_date[1]))
                       ELSE parameters
        after_end == IF kwargs.end_date # <<>>
                     THEN MapSet(after_start, "call_start_before_unix", date_to_unix(kwargs.end_date[1]))
                     ELSE after_start
    IN  /\ Len(downloaders) < MaxDownloaders
        /\ Len(connections) < MaxAggregators
        /\ with_groups => catalogs < MaxCatalogs
        /\ ~with_groups => fail = 0
        /\ Len(accepted) <= MaxAccepted
        /\ accepted_agent_ids' = accepted
        /\ IF with_groups
           THEN /\ agents' = made.agents
                /\ agents_ids' = made.agents_ids
                /\ catalogs' = catalogs + 1
           ELSE UNCHANGED << agents, agents_ids, catalogs >>
        /\ IF raised
           THEN UNCHANGED << connections, downloaders, parameters >>
           ELSE /\ connections' =
                      Append(connections,
                             [agent_connection |-> IF with_groups THEN <<made.instance>> ELSE <<>>,
                              conversation_ids_per_agent_group |-> <<>>])
                /\ parameters' = after_end
                /\ downloaders' =
                      Append(downloaders,
                             [connection |-> Len(connections) + 1,
                              must_process_summary |-> kwargs.process_summary \/ kwargs.process_all,
                              must_process_transcripts |-> kwargs.process_transcripts \/ kwargs.process_all,
                              must_process_variables |-> kwargs.process_variables \/ kwargs.process_all,
                              must_process_criteria |-> kwargs.process_criteria \/ kwargs.process_all,
                              must_process_data_collection |->
                                 kwargs.process_data_collection \/ kwargs.process_all])
        /\ UNCHANGED << remoteVars, remote_data_collection, helperVars, updaterVars,
                        conversations, conversation_ids, conversation_ids_per_agent_id,
                        requests, builds, remote_details, conversation_details,
                        detail_requests, toggles >>

\* The setters that delegate to the connection.  The class documentation has
\* build() called after the setters, and the model calls them before the
\* first build() of the process.

\* downloader.set_accepted_agent_ids(agent_ids)
DownloaderSetAcceptedAgentIds(d, agent_ids) ==
    /\ builds = 0
    /\ SetAcceptedAgentIds(downloaders[d].connection, agent_ids)

\* downloader.set_accepted_agent_groups(agent_groups)
DownloaderSetAcceptedAgentGroups(d, agent_groups, fail) ==
    /\ builds = 0
    /\ SetAcceptedAgentGroups(downloaders[d].connection, agent_groups, fail)

\* downloader.set_start_date(start_date)
DownloaderSetStartDate(d, start_date) ==
    /\ builds = 0
    /\ SetStartDate(downloaders[d].connection, start_date)

\* downloader.set_end_date(end_date)
DownloaderSetEndDate(d, end_date) ==
    /\ builds = 0
    /\ SetEndDate(downloaders[d].connection, end_date)

\* what a toggle_* call leaves alone
ToggleFrame ==
    /\ toggles < MaxToggles
    /\ toggles' = toggles + 1
    /\ UNCHANGED << remoteVars, remote_data_collection, helperVars, catalogVars,
                    aggregatorVars, updaterVars, catalogs, remote_details,
                    conversation_details, detail_requests >>

\* downloader.toggle_process_summary(toggle)
ToggleProcessSummary(d, toggle) ==
    /\ downloaders' = [downloaders EXCEPT ![d].must_process_summary = toggle]
    /\ ToggleFrame

\* downloader.toggle_process_transcripts(toggle)
ToggleProcessTranscripts(d, toggle) ==
    /\ downloaders' = [downloaders EXCEPT ![d].must_process_transcripts = toggle]
    /\ ToggleFrame

\* downloader.toggle_process_variables(toggle)
ToggleProcessVariables(d, toggle) ==
    /\ downloaders' = [downloaders EXCEPT ![d].must_process_variables = toggle]
    /\ ToggleFrame

\* downloader.toggle_process_criteria(toggle)
ToggleProcessCriteria(d, toggle) ==
    /\ downloaders' = [downloaders EXCEPT ![d].must_process_criteria = toggle]
    /\ ToggleFrame

\* downloader.toggle_process_data_collection(toggle)
ToggleProcessDataCollection(d, toggle) ==
    /\ downloaders' = [downloaders EXCEPT ![d].must_process_data_collection = toggle]
    /\ ToggleFrame

\* downloader.toggle_process_all(toggle): does nothing when toggle is False
ToggleProcessAll(d, toggle) ==
    /\ downloaders' =
          IF toggle
          THEN [downloaders EXCEPT ![d].must_process_summary = TRUE,
                                   ![d].must_process_transcripts = TRUE,
                                   ![d].must_process_variables = TRUE,
                                   ![d].must_process_criteria = TRUE,
                                   ![d].must_process_data_collection = TRUE]
          ELSE downloaders
    /\ ToggleFrame

\* the body of "for conversation in conversations.values()" after the detail
\* fetch: the record appended for one conversation
Enrich(downloader, conversation, raw_details) ==
    MapSetIf(
        MapSetIf(
            MapSetIf(
                MapSetIf(
                    MapSetIf(process_basic_variables(conversation, raw_details),
                             downloader.must_process_summary,
                             "summary", process_summary(raw_details)),
                    downloader.must_process_variables,
                    "dynamic_variables", process_dynamic_variables(raw_details).value),
                downloader.must_process_criteria,
                "criteria", process_criteria(raw_details)),
            downloader.must_process_data_collection,
            "data_collection", process_data_collection(raw_details)),
        downloader.must_process_transcripts,
        "transcript", process_transcript(raw_details))

\* a step of that body raised
EnrichRaised(downloader, raw_details) ==
    downloader.must_process_variables /\ process_dynamic_variables(raw_details).raised

\* one turn of the loop: the detail fetch, then the record is appended, unless
\* a step raised
DetailsStep(st, downloader, conversation) ==
    IF st.raised
    THEN st
    ELSE [raised |-> EnrichRaised(downloader, remote_details[conversation.conversation_id]),
          conversation_details |->
             IF EnrichRaised(downloader, remote_details[conversation.conversation_id])
             THEN st.conversation_details
             ELSE Append(st.conversation_details,
                         Enrich(downloader, conversation,
                                remote_details[conversation.conversation_id])),
          detail_requests |-> Append(st.detail_requests, conversation.conversation_id)]

\* the loop over the first k conversations of the full-id index
RECURSIVE DetailsLoop(_, _, _, _)
DetailsLoop(downloader, index, details, k) ==
    IF k = 0
    THEN [raised |-> FALSE, conversation_details |-> details, detail_requests |-> <<>>]
    ELSE DetailsStep(DetailsLoop(downloader, index, details, k - 1), downloader, index.val[k])

\* downloader.build(): the connection's build(), then one detail fetch and one
\* appended record for every conversation of the full-id index
DownloaderBuild(d) ==
    LET i == downloaders[d].connection
        st == BuildResult
        looped == DetailsLoop(downloaders[d], st.conversations, conversation_details,
                              Len(st.conversations.keys))
    IN  /\ builds < MaxBuilds
        /\ builds' = builds + 1
        /\ parameters' = st.parameters
        /\ conversations' = st.conversations
        /\ conversation_ids' = st.conversation_ids
        /\ conversation_ids_per_agent_id' = st.conversation_ids_per_agent_id
        /\ connections' = [connections EXCEPT
              ![i].conversation_ids_per_agent_group = st.conversation_ids_per_agent_group]
        /\ requests' = st.requests
        /\ conversation_details' = looped.conversation_details
        /\ detail_requests' = looped.detail_requests
        /\ UNCHANGED << remoteVars, remote_data_collection, helperVars, catalogVars,
                        accepted_agent_ids, updaterVars, catalogs, remote_details,
                        downloaders, toggles >>

(***************************************************************************)
(* The inputs of the operations.                                            *)
(***************************************************************************)
AgentIdLists == {<<"a1">>, <<"a2", "a3">>}

GroupLists == {<<g>> : g \in Range(AgentGroup)} \cup {<<"ELENA", "MARIA">>}

Dates == {1}

VariableNames == {"f1"}

VariableTypes == {"BOOLEAN", "FLOAT"}

VariablePrompts == {"asked for a demo"}

\* the keyword arguments a downloader is constructed with
NoKwargs ==
    [agent_ids |-> <<>>, agent_groups |-> <<>>, start_date |-> <<>>, end_date |-> <<>>,
     process_summary |-> FALSE, process_transcripts |-> FALSE, process_variables |-> FALSE,
     process_criteria |-> FALSE, process_data_collection |-> FALSE, process_all |-> FALSE]

KwargsChoices ==
    { NoKwargs,
      \* as download_data_collection passes them
      [NoKwargs EXCEPT !.agent_ids = <<"a1">>, !.process_variables = TRUE,
                       !.process_data_collection = TRUE, !.process_criteria = TRUE],
      \* as download_transcriptions_combined passes them
      [NoKwargs EXCEPT !.agent_groups = <<"ELENA">>, !.start_date = <<1>>, !.end_date = <<1>>,
                       !.process_transcripts = TRUE],
      [NoKwargs EXCEPT !.process_all = TRUE] }

\* agent names: up to MaxTokens of these pieces, one after another
TokenElena == <<"E", "l", "e", "n", "a">>
TokenAffaUpper == <<"A", "F", "F", "A">>
TokenMariaUpper == <<"M", "A", "R", "Í", "A">>
TokenCoach == <<"C", "o", "a", "c", "h">>

Tokens ==
    { kw_elena, TokenElena, TokenAffaUpper, kw_noaffa, kw_banner, kw_maria,
      TokenMariaUpper, TokenCoach, kw_artesan, <<" ">>, <<"x">> }

RECURSIVE NamesOf(_)
NamesOf(k) ==
    IF k = 0 THEN {<<>>} ELSE NamesOf(k - 1) \cup {n \o t : n \in NamesOf(k - 1), t \in Tokens}

AgentNames == NamesOf(MaxTokens)

\* the keys a dynamic-variables mapping may have, and their values
key_sys == <<"s", "y", "s">>
key_my_system == <<"m", "y", "_", "s", "y", "s", "t", "e", "m">>
VariableKeys ==
    << key_system_time, key_system, key_sys, key_my_system, key_email, key_phone,
       key_secret_user_id, key_secret_object_id, key_campaign >>
VariableValues == << "v1", "v2", "v3", "v4", "v5", "v6", "v7", "v8", "v9" >>

\* the mapping with the keys at the chosen positions, in the order of VariableKeys
MappingOf(chosen) ==
    LET at(m) == CHOOSE j \in chosen : Cardinality({x \in chosen : x < j}) = m - 1
    IN  [keys |-> [m \in 1..Cardinality(chosen) |-> VariableKeys[at(m)]],
         val |-> [m \in 1..Cardinality(chosen) |-> VariableValues[at(m)]]]

\* the remote records process_dynamic_variables is called with
RawDetails ==
    {DetailBare, DetailNoVariables}
    \cup { [DetailBare EXCEPT !.conversation_initiation_client_data =
                                   << [dynamic_variables |-> <<MappingOf(chosen)>>] >>]
            : chosen \in SUBSET (1..Len(VariableKeys)) }

(***************************************************************************)
(* The process: a fresh interpreter, then any sequence of calls.            *)
(***************************************************************************)
\* no helper function is being called on its own
NoHelperCall ==
    /\ arg_agent_name = <<>>
    /\ ret_groups = <<>>
    /\ arg_seconds = 0
    /\ ret_timestamp = <<>>
    /\ arg_raw_details = <<>>
    /\ ret_dynamic_variables = <<>>

\* the platform, before the process starts
Platform ==
    /\ remote_agents \in AgentLists
    /\ remote_pages \in Listings
    /\ remote_data_collection = InitialDataCollection

\* the class bodies have run: every container of a class is empty, there is
\* no instance and no call was made
FreshProcess ==
    /\ agents = <<>>
    /\ agents_ids = <<>>
    /\ parameters = <<>>
    /\ accepted_agent_ids = <<>>
    /\ conversations = EmptyDict
    /\ conversation_ids = <<>>
    /\ conversation_ids_per_agent_id = <<>>
    /\ connections = <<>>
    /\ updater_agent_ids = <<>>
    /\ updaters = <<>>
    /\ requests = <<>>
    /\ update_calls = <<>>
    /\ catalogs = 0
    /\ builds = 0
    /\ updates = 0
    /\ conversation_details = <<>>
    /\ downloaders = <<>>
    /\ detail_requests = <<>>
    /\ toggles = 0

Init ==
    /\ Platform
    /\ remote_details = DetailsA
    /\ FreshProcess
    /\ NoHelperCall

\* a process that downloads conversation details
InitDownloader ==
    /\ Platform
    /\ remote_details \in RemoteDetails
    /\ FreshProcess
    /\ NoHelperCall

\* a call of get_agent_groups is about to be made
InitClassifier ==
    /\ Platform
    /\ remote_details = DetailsA
    /\ FreshProcess
    /\ arg_agent_name \in AgentNames
    /\ ret_groups = <<>>
    /\ arg_seconds = 0
    /\ ret_timestamp = <<>>
    /\ arg_raw_details = <<>>
    /\ ret_dynamic_variables = <<>>

\* a call of seconds_to_timestamp is about to be made
InitTimestamp ==
    /\ Platform
    /\ remote_details = DetailsA
    /\ FreshProcess
    /\ arg_agent_name = <<>>
    /\ ret_groups = <<>>
    /\ arg_seconds \in 0..MaxSeconds
    /\ ret_timestamp = <<>>
    /\ arg_raw_details = <<>>
    /\ ret_dynamic_variables = <<>>

\* a call of process_dynamic_variables is about to be made
InitDynamicVariables ==
    /\ Platform
    /\ remote_details = DetailsA
    /\ FreshProcess
    /\ arg_agent_name = <<>>
    /\ ret_groups = <<>>
    /\ arg_seconds = 0
    /\ ret_timestamp = <<>>
    /\ arg_raw_details \in RawDetails
    /\ ret_dynamic_variables = <<>>

\* what a call of a helper function leaves alone
HelperFrame ==
    UNCHANGED << remoteVars, remote_data_collection, catalogVars, aggregatorVars,
                 updaterVars, catalogs, downloaderVars >>

\* groups = AgentGroupSelector.get_agent_groups(agent_name)
GetAgentGroups ==
    /\ ret_groups' = << get_agent_groups(arg_agent_name) >>
    /\ UNCHANGED << arg_agent_name, arg_seconds, ret_timestamp, arg_raw_details,
                    ret_dynamic_variables >>
    /\ HelperFrame

\* timestamp = TimeHelper.seconds_to_timestamp(seconds)
SecondsToTimestamp ==
    /\ ret_timestamp' = << seconds_to_timestamp(arg_seconds) >>
    /\ UNCHANGED << arg_agent_name, ret_groups, arg_seconds, arg_raw_details,
                    ret_dynamic_variables >>
    /\ HelperFrame

\* dynamic_variables = self.process_dynamic_variables(raw_details)
ProcessDynamicVariables ==
    LET call == process_dynamic_variables(arg_raw_details)
    IN  /\ ret_dynamic_variables' = << [raised |-> call.raised, value |-> call.value] >>
        /\ arg_raw_details' = call.raw_details
        /\ UNCHANGED << arg_agent_name, ret_groups, arg_seconds, ret_timestamp >>
        /\ HelperFrame

\* the calls of a process that aggregates conversations
NextConversations ==
    \/ NewConnection
    \/ \E i \in 1..Len(connections), agent_ids \in AgentIdLists : SetAcceptedAgentIds(i, agent_ids)
    \/ \E i \in 1..Len(connections), agent_groups \in GroupLists, fail \in FailPoints :
          SetAcceptedAgentGroups(i, agent_groups, fail)
    \/ \E i \in 1..Len(connections), d \in Dates : SetStartDate(i, d)
    \/ \E i \in 1..Len(connections), d \in Dates : SetEndDate(i, d)
    \/ \E i \in 1..Len(connections) : Build(i)

\* the calls of a process that updates data-collection fields
NextUpdater ==
    \/ \E fail \in FailPoints : NewUpdater(fail)
    \/ \E u \in 1..Len(updaters), name \in VariableNames : SetVariableName(u, name)
    \/ \E u \in 1..Len(updaters), t \in VariableTypes : SetVariableType(u, t)
    \/ \E u \in 1..Len(updaters), prompt \in VariablePrompts : SetVariablePrompt(u, prompt)
    \/ \E u \in 1..Len(updaters), g \in Range(AgentGroup) : SetAgentGroup(u, g)
    \/ \E u \in 1..Len(updaters) : SetAllAgents(u)
    \/ \E u \in 1..Len(updaters), fail \in 0..MaxSelected : Update(u, fail)

SpecConversations == Init /\ [][NextConversations]_vars

SpecUpdater == Init /\ [][NextUpdater]_vars

\* the calls of a process that downloads conversation details
NextDownloader ==
    \/ \E kwargs \in KwargsChoices, fail \in FailPoints : NewDownloader(kwargs, fail)
    \/ \E d \in 1..Len(downloaders), agent_ids \in AgentIdLists :
          DownloaderSetAcceptedAgentIds(d, agent_ids)
    \/ \E d \in 1..Len(downloaders), agent_groups \in GroupLists, fail \in FailPoints :
          DownloaderSetAcceptedAgentGroups(d, agent_groups, fail)
    \/ \E d \in 1..Len(downloaders), date \in Dates : DownloaderSetStartDate(d, date)
    \/ \E d \in 1..Len(downloaders), date \in Dates : DownloaderSetEndDate(d, date)
    \/ \E d \in 1..Len(downloaders), toggle \in BOOLEAN : ToggleProcessSummary(d, toggle)
    \/ \E d \in 1..Len(downloaders), toggle \in BOOLEAN : ToggleProcessTranscripts(d, toggle)
    \/ \E d \in 1..Len(downloaders), toggle \in BOOLEAN : ToggleProcessVariables(d, toggle)
    \/ \E d \in 1..Len(downloaders), toggle \in BOOLEAN : ToggleProcessCriteria(d, toggle)
    \/ \E d \in 1..Len(downloaders), toggle \in BOOLEAN : ToggleProcessDataCollection(d, toggle)
    \/ \E d \in 1..Len(downloaders), toggle \in BOOLEAN : ToggleProcessAll(d, toggle)
    \/ \E d \in 1..Len(downloaders) : DownloaderBuild(d)

SpecDownloader == InitDownloader /\ [][NextDownloader]_vars

SpecClassifier == InitClassifier /\ [][GetAgentGroups]_vars

SpecTimestamp == InitTimestamp /\ [][SecondsToTimestamp]_vars

SpecDynamicVariables == InitDynamicVariables /\ [][ProcessDynamicVariables]_vars

(***************************************************************************)
(* Properties.                                                              *)
(***************************************************************************)
\* every conversation the platform lists, over all its pages
Listed == UNION {Range(remote_pages[p]) : p \in 1..Len(remote_pages)}

\* the agent of an indexed conversation
AgentOf(index, conversation_id) == DictGet(index, conversation_id).agent_id

\* the instances that hold an AgentConnection
WithCatalog == {i \in 1..Len(connections) : connections[i].agent_connection # <<>>}

\* C1: an aggregator configured only with acceptedAgentGroups = {G} (its accept
\* filter is G's expansion by its catalog, whatever G and whether or not an agent
\* is in G), building first in the process, returns in the all-ids list only
\* conversations of agents the catalog places in G, each also in G's group list.
GroupFilterKeepsOnlyGroup ==
    [][\A i \in WithCatalog, G \in Range(AgentGroup) :
         ( /\ Build(i)
           /\ builds = 0
           /\ accepted_agent_ids = get_agent_group_ids(connections[i].agent_connection[1], G) )
         => \A k \in 1..Len(conversation_ids') :
               /\ AgentOf(conversations', conversation_ids'[k])
                     \in Range(get_agent_group_ids(connections[i].agent_connection[1], G))
               /\ conversation_ids'[k]
                     \in Range(connections'[i].conversation_ids_per_agent_group[GroupValue(G)])
      ]_vars

\* the listed conversations an accept filter A keeps (an empty filter keeps all)
Kept(A) == {c \in Listed : A = {} \/ c.agent_id \in A}

\* C2: after build() with accept filter A the full-id index holds exactly the
\* conversations the platform lists whose agent is in A (with A empty every
\* listed conversation is indexed), and no conversation of an agent outside A
\* is in the all-ids list, the per-agent index or a per-group list.
IndexIsExactlyAccepted ==
    [][\A i \in 1..Len(connections) :
         Build(i) =>
            LET A == Range(accepted_agent_ids)
                kept == {c.conversation_id : c \in Kept(A)}
                groups == connections'[i].conversation_ids_per_agent_group
            IN  /\ kept \subseteq DictKeys(conversations')
                /\ A # {} =>
                      /\ DictKeys(conversations') = kept
                      /\ Range(conversation_ids') \subseteq kept
                      /\ \A a \in DOMAIN conversation_ids_per_agent_id' :
                            /\ a \in A
                            /\ conversation_ids_per_agent_id'[a] \in kept
                      /\ \A v \in DOMAIN groups : Range(groups[v]) \subseteq kept
      ]_vars

\* C3: for an agent with an indexed conversation, get_conversation_info_from_agent
\* does not fail and returns the full-id index's record(s) of that agent's
\* indexed conversation id, each with agent_id = a.
AgentInfoAccessorReturnsRecords ==
    \A i \in 1..Len(connections) :
        \A a \in DOMAIN conversation_ids_per_agent_id :
            LET got == get_conversation_info_from_agent(i, a)
            IN  /\ ~got.raised
                /\ got.value = <<DictGet(conversations, conversation_ids_per_agent_id[a])>>
                /\ \A k \in 1..Len(got.value) : got.value[k].agent_id = a

\* what an aggregator instance reads through self: its accept filter, its
\* request parameters and its indexes
View(i) ==
    << accepted_agent_ids, parameters, conversations, conversation_ids,
       conversation_ids_per_agent_id, connections[i].conversation_ids_per_agent_group >>

\* a call on instance i
CallOn(i) ==
    \/ \E agent_ids \in AgentIdLists : SetAcceptedAgentIds(i, agent_ids)
    \/ \E agent_groups \in GroupLists, fail \in FailPoints : SetAcceptedAgentGroups(i, agent_groups, fail)
    \/ \E d \in Dates : SetStartDate(i, d) \/ SetEndDate(i, d)
    \/ Build(i)

\* C4: a new aggregator starts with an empty accept filter, no request
\* parameters and empty indexes, and a call on one aggregator leaves the accept
\* filter, the request parameters and the indexes of every other one unchanged.
ContainersArePerInstance ==
    [][ /\ NewConnection =>
              /\ accepted_agent_ids' = <<>>
              /\ parameters' = <<>>
              /\ conversations' = EmptyDict
              /\ conversation_ids' = <<>>
              /\ conversation_ids_per_agent_id' = <<>>
              /\ connections'[Len(connections')].conversation_ids_per_agent_group = <<>>
        /\ \A i \in 1..Len(connections), j \in 1..Len(connections) :
              (i # j /\ CallOn(i)) => View(j)' = View(j)
      ]_vars

\* C5: a catalog construction in which a remote call fails raises (the caller
\* gets no catalog) and leaves no partial catalog: what allAgents() and
\* allAgentIds() answer for every catalog instance is what it was before.
FailedCatalogLeavesNothing ==
    [][\A i \in 1..Len(connections), agent_groups \in GroupLists, fail \in FailPoints \ {0} :
         SetAcceptedAgentGroups(i, agent_groups, fail) =>
            /\ connections'[i].agent_connection = <<>>
            /\ \A j \in WithCatalog :
                  /\ get_all_agents(connections[j].agent_connection[1])'
                        = get_all_agents(connections[j].agent_connection[1])
                  /\ get_all_agent_ids(connections[j].agent_connection[1])'
                        = get_all_agent_ids(connections[j].agent_connection[1])
      ]_vars

\* how many of the calls are addressed to agent a
CallsTo(calls, a) == Cardinality({k \in 1..Len(calls) : calls[k].agent_id = a})

\* C6: with one catalog in the process, the selection built by set_agent_group /
\* set_all_agents is a union: an update() in which no call fails issues exactly
\* one update call for each selected agent id (also one that is in several of
\* the chosen groups) and none for any other agent.
UpdateCallsEachSelectedAgentOnce ==
    [][\A u \in 1..Len(updaters) :
         (Update(u, 0) /\ Configured(updaters[u]) /\ catalogs = 1) =>
            \A a \in AgentIds :
               CallsTo(update_calls', a)
                  = IF a \in Range(SelectedAgentIds(updaters[u])) THEN 1 ELSE 0
      ]_vars

\* C7: every update call of update() is addressed to one selected agent and
\* carries that agent's existing mapping with the entry variableName set to
\* {type: variableType, description: variablePrompt}: every other entry is
\* pushed unchanged, none is dropped; without a failure every selected agent
\* gets its call.
UpdatePushesWholeMapping ==
    [][\A u \in 1..Len(updaters), fail \in 0..MaxSelected :
         (Update(u, fail) /\ Configured(updaters[u])) =>
            LET ids == SelectedAgentIds(updaters[u])
            IN  /\ fail = 0 => Len(update_calls') = Len(ids)
                /\ \A k \in 1..Len(update_calls') :
                      LET call == update_calls'[k]
                          existing == agents[ids[k]].data_collection
                          pushed == call.platform_settings.data_collection
                      IN  /\ call.agent_id = ids[k]
                          /\ DOMAIN pushed = DOMAIN existing \cup {updaters[u].variable_name}
                          /\ pushed[updaters[u].variable_name]
                                = [type |-> updaters[u].variable_type,
                                   description |-> updaters[u].variable_prompt]
                          /\ \A f \in DOMAIN existing \ {updaters[u].variable_name} :
                                pushed[f] = existing[f]
      ]_vars

\* an update pushed a mapping that kept an entry next to the one it set
PushedMappingWithOtherEntry ==
    \E k \in 1..Len(update_calls) :
        /\ update_calls[k].agent_id = "a2"
        /\ update_calls[k].platform_settings.data_collection["f2"] = OldDefinition
        /\ update_calls[k].platform_settings.data_collection["f1"] # OldDefinition

\* C8: when the update call for the k-th selected agent fails, update() has
\* issued the calls for the first k-1 selected agents and no other: those agents
\* keep the pushed mapping on the platform, the mapping of every other agent is
\* what it was.
UpdateStopsAtFailure ==
    [][\A u \in 1..Len(updaters), fail \in 1..MaxSelected :
         (Update(u, fail) /\ Configured(updaters[u])) =>
            LET ids == SelectedAgentIds(updaters[u])
                done == {ids[k] : k \in 1..(fail - 1)}
            IN  /\ Len(update_calls') = fail - 1
                /\ \A k \in 1..(fail - 1) :
                      /\ update_calls'[k].agent_id = ids[k]
                      /\ remote_data_collection'[ids[k]]
                            = update_calls'[k].platform_settings.data_collection
                /\ \A a \in AgentIds \ done :
                      remote_data_collection'[a] = remote_data_collection[a]
      ]_vars

\* an update failed at its second agent: the first agent's mapping is pushed,
\* the second agent's mapping is changed in the cache and not on the platform
UpdateFailedAtSecond ==
    /\ updates > 0
    /\ Len(update_calls) = 1
    /\ update_calls[1].agent_id = "a1"
    /\ remote_data_collection["a1"] = update_calls[1].platform_settings.data_collection
    /\ "a2" \in DOMAIN agents
    /\ agents["a2"].data_collection # remote_data_collection["a2"]
    /\ remote_data_collection["a2"] = InitialDataCollection["a2"]

\* what the classifier gives for the agent name of a listed conversation
TagsOf(conversation_id) ==
    LET c == CHOOSE x \in Listed : x.conversation_id = conversation_id
    IN  {GroupValue(g) : g \in Range(get_agent_groups(c.agent_name))}

\* C9: after build(), for every conversation c of the full-id index and every
\* group g, c's id is in g's per-group list iff g is one of c's groupTags, and
\* every id of a per-group list is a key of the full-id index.
GroupListsMatchIndex ==
    [][\A i \in 1..Len(connections) :
         Build(i) =>
            LET groups == connections'[i].conversation_ids_per_agent_group
            IN  \A v \in DOMAIN groups :
                   /\ \A c \in DictKeys(conversations') :
                         (c \in Range(groups[v])) <=> (v \in TagsOf(c))
                   /\ Range(groups[v]) \subseteq DictKeys(conversations')
      ]_vars

\* the response the platform gave to a logged request
ResponseTo(request) == RemoteListConversations(request)

RECURSIVE ListedBy(_, _)
ListedBy(reqs, k) ==
    IF k = 0 THEN <<>> ELSE ListedBy(reqs, k - 1) \o ResponseTo(reqs[k]).conversations

\* those of the conversations that pass the accept filter
Accepted(convs) ==
    SelectSeq(convs, LAMBDA c : accepted_agent_ids = <<>> \/ c.agent_id \in Range(accepted_agent_ids))

EveryGroupKeyIsPresent ==
    [][ /\ \A i \in 1..Len(connections) :
              Build(i) =>
                 /\ Cardinality(DOMAIN connections'[i].conversation_ids_per_agent_group) = 8
                 /\ \A g \in Range(AgentGroup) :
                       LET got == get_conversation_ids_from_agent_group(i, g)'
                       IN  /\ ~got.raised
                           /\ got.value \in Seq(Range(conversation_ids'))
        /\ \A i \in 1..Len(connections') :
              connections'[i].agent_connection # <<>> =>
                 /\ Cardinality(DOMAIN connections'[i].agent_connection[1].agent_groups_ids) = 8
                 /\ \A g \in Range(AgentGroup) :
                       get_agent_group_ids(connections'[i].agent_connection[1], g) \in Seq(AgentIds)
      ]_vars

\* an aggregator with a catalog has built: no conversation it listed and no
\* agent of its catalog is in group COACH, and both lists are there, empty
EmptyGroupListsAfterBuild ==
    \E i \in WithCatalog :
        /\ builds > 0
        /\ conversation_ids # <<>>
        /\ get_conversation_ids_from_agent_group(i, "COACH") = Returned(<<>>)
        /\ get_agent_group_ids(connections[i].agent_connection[1], "COACH") = <<>>
        /\ get_agent_group_ids(connections[i].agent_connection[1], "ELENA") # <<>>

\* the fields of a record that hold the contact keys of the mapping
ContactFields ==
    { <<"email", key_email>>, <<"phone", key_phone>>,
      <<"salesforce_user_id", key_secret_user_id>>,
      <<"salesforce_object_id", key_secret_object_id>> }

\* C13: in every record a downloader build() appends, each of summary,
\* transcript, dynamic_variables, criteria and data_collection is a key iff the
\* downloader's flag for it is on in that run, and email, phone,
\* salesforce_user_id and salesforce_object_id are always keys, with value ""
\* when the remote record has no dynamic-variables mapping or the mapping
\* lacks the key.
FlagsDecideOptionalKeys ==
    [][\A d \in 1..Len(downloaders) :
         DownloaderBuild(d) =>
            \A k \in (Len(conversation_details) + 1)..Len(conversation_details') :
               LET record == conversation_details'[k]
                   raw == remote_details[record.conversation_id]
               IN  /\ ("summary" \in DOMAIN record) <=> downloaders[d].must_process_summary
                   /\ ("transcript" \in DOMAIN record) <=> downloaders[d].must_process_transcripts
                   /\ ("dynamic_variables" \in DOMAIN record) <=> downloaders[d].must_process_variables
                   /\ ("criteria" \in DOMAIN record) <=> downloaders[d].must_process_criteria
                   /\ ("data_collection" \in DOMAIN record)
                         <=> downloaders[d].must_process_data_collection
                   /\ \A f \in ContactFields :
                         /\ f[1] \in DOMAIN record
                         /\ ( \/ raw.conversation_initiation_client_data = <<>>
                              \/ raw.conversation_initiation_client_data[1].dynamic_variables = <<>>
                              \/ ~HasKey(raw.conversation_initiation_client_data[1].dynamic_variables[1],
                                         f[2]) )
                            => record[f[1]] = ""
      ]_vars

\* a build with the variables flag on and the transcripts flag off appended a
\* record for c1, whose mapping has an email and no secret_object_id, and one
\* for c2, which has no client data
RecordsWithAndWithoutContact ==
    /\ remote_details = DetailsA
    /\ \E k \in 1..Len(conversation_details) :
          LET record == conversation_details[k]
          IN  /\ record.conversation_id = c1
              /\ "dynamic_variables" \in DOMAIN record
              /\ "transcript" \notin DOMAIN record
              /\ record.email = "a@b.com"
              /\ record.salesforce_object_id = ""
    /\ \E k \in 1..Len(conversation_details) :
          LET record == conversation_details[k]
          IN  /\ record.conversation_id = c2
              /\ "dynamic_variables" \in DOMAIN record
              /\ record.email = ""

\* the keys the filter is to remove
ContactKeys == {key_email, key_phone, key_secret_user_id, key_secret_object_id}

\* C14: process_dynamic_variables does not fail and returns the raw mapping
\* restricted to the keys that neither start with "system" nor are email,
\* phone, secret_user_id or secret_object_id, each with its value ({} when the
\* record has no mapping), and the remote record's mapping is what it was.
FilterRemovesSystemAndContactKeys ==
    [][ProcessDynamicVariables =>
          LET call == ret_dynamic_variables'[1]
              client_data == arg_raw_details.conversation_initiation_client_data
          IN  /\ ~call.raised
              /\ arg_raw_details' = arg_raw_details
              /\ IF client_data = <<>> \/ client_data[1].dynamic_variables = <<>>
                 THEN call.value = EmptyDict
                 ELSE LET m == client_data[1].dynamic_variables[1]
                          kept == {j \in 1..Len(m.keys) :
                                      /\ ~(Len(m.keys[j]) >= 6 /\ SubSeq(m.keys[j], 1, 6) = key_system)
                                      /\ m.keys[j] \notin ContactKeys}
                      IN  /\ Len(call.value.keys) = Cardinality(kept)
                          /\ DictKeys(call.value) = {m.keys[j] : j \in kept}
                          /\ \A j \in kept : DictGet(call.value, m.keys[j]) = m.val[j]
      ]_vars

\* the call was made on the mapping with every key: what came back has the
\* keys sys, my_system and campaign
FilteredTheFullMapping ==
    /\ ret_dynamic_variables # <<>>
    /\ arg_raw_details.conversation_initiation_client_data # <<>>
    /\ arg_raw_details.conversation_initiation_client_data[1].dynamic_variables
          = << MappingOf(1..Len(VariableKeys)) >>
    /\ ret_dynamic_variables[1].value
          = [keys |-> <<key_sys, key_my_system, key_campaign>>, val |-> <<"v3", "v4", "v9">>]

\* C15: for an agent name containing "elena" (in any case) the classifier gives
\* ELENA, ELENA_AFFA iff the name has "affa" and not "noaffa", ELENA_NOAFFA iff
\* it has "noaffa", ELENA_BANNER iff it has "banner", each once and nothing
\* else: never ELENA_AFFA with ELENA_NOAFFA, never MARIA, COACH, ARTESAN or OTHER.
ElenaFamilyTags ==
    [][GetAgentGroups =>
          LET name == Lower(arg_agent_name)
              expected ==
                 {"ELENA"}
                 \cup (IF Contains(name, kw_affa) /\ ~Contains(name, kw_noaffa)
                       THEN {"ELENA_AFFA"} ELSE {})
                 \cup (IF Contains(name, kw_noaffa) THEN {"ELENA_NOAFFA"} ELSE {})
                 \cup (IF Contains(name, kw_banner) THEN {"ELENA_BANNER"} ELSE {})
          IN  Contains(name, kw_elena) =>
                 /\ Range(ret_groups'[1]) = expected
                 /\ Len(ret_groups'[1]) = Cardinality(expected)
                 /\ ~({"ELENA_AFFA", "ELENA_NOAFFA"} \subseteq Range(ret_groups'[1]))
                 /\ Range(ret_groups'[1]) \cap {"MARIA", "COACH", "ARTESAN", "OTHER"} = {}
      ]_vars

\* the classifier was called with "Elenabanner" and gave ELENA and ELENA_BANNER
ClassifiedElenaBanner ==
    /\ arg_agent_name = TokenElena \o kw_banner
    /\ ret_groups = << <<"ELENA", "ELENA_BANNER">> >>

\* C16: for an agent name not containing "elena" the classifier gives exactly
\* one tag: MARIA if the name has "maria" or "maría", else COACH if it has
\* "coach", else ARTESAN if it has "artesan", else OTHER.
FirstFamilyWins ==
    [][GetAgentGroups =>
          LET name == Lower(arg_agent_name)
          IN  ~Contains(name, kw_elena) =>
                 ret_groups'[1] =
                    << IF Contains(name, kw_maria) \/ Contains(name, kw_maria_accent) THEN "MARIA"
                       ELSE IF Contains(name, kw_coach) THEN "COACH"
                       ELSE IF Contains(name, kw_artesan) THEN "ARTESAN"
                       ELSE "OTHER" >>
      ]_vars

\* the classifier was called with "Coachmariabanner" and gave MARIA alone
ClassifiedCoachMaria ==
    /\ arg_agent_name = TokenCoach \o kw_maria \o kw_banner
    /\ ret_groups = << <<"MARIA">> >>

\* C17: for every agent name, the empty one included, the classifier gives at
\* least one tag, and OTHER only as the sole tag.
ClassifierNeverEmpty ==
    [][GetAgentGroups =>
          /\ ret_groups'[1] # <<>>
          /\ "OTHER" \in Range(ret_groups'[1]) => ret_groups'[1] = <<"OTHER">>
      ]_vars

\* the classifier was called with the empty name and gave OTHER
ClassifiedEmptyName ==
    /\ arg_agent_name = <<>>
    /\ ret_groups = << <<"OTHER">> >>

\* the number a digit character stands for (10 for any other character)
DigitValue(c) ==
    CASE c = "0" -> 0 [] c = "1" -> 1 [] c = "2" -> 2 [] c = "3" -> 3 [] c = "4" -> 4
      [] c = "5" -> 5 [] c = "6" -> 6 [] c = "7" -> 7 [] c = "8" -> 8 [] c = "9" -> 9
      [] OTHER -> 10

\* the number a string of digits stands for
RECURSIVE NumberOf(_)
NumberOf(digits) ==
    IF digits = <<>>
    THEN 0
    ELSE 10 * NumberOf(SubSeq(digits, 1, Len(digits) - 1)) + DigitValue(digits[Len(digits)])

\* C18: for seconds n >= 0, seconds_to_timestamp(n) is the digits of n div 60,
\* zero-padded to two digits and no further, then ":", then n mod 60 as two
\* digits (00..59): 125 gives "02:05", 59 gives "00:59", 6000 gives "100:00".
TimestampIsMinutesColonSeconds ==
    [][SecondsToTimestamp =>
          LET t == ret_timestamp'[1]
              mm == SubSeq(t, 1, Len(t) - 3)
              ss == SubSeq(t, Len(t) - 1, Len(t))
          IN  /\ Len(t) >= 5
              /\ t[Len(t) - 2] = ":"
              /\ \A k \in 1..Len(mm) : DigitValue(mm[k]) < 10
              /\ \A k \in 1..Len(ss) : DigitValue(ss[k]) < 10
              /\ NumberOf(mm) = arg_seconds \div 60
              /\ Len(mm) = 2 \/ mm[1] # "0"
              /\ NumberOf(ss) = arg_seconds % 60
              /\ NumberOf(ss) \in 0..59
              /\ arg_seconds = 125 => t = <<"0", "2", ":", "0", "5">>
              /\ arg_seconds = 59 => t = <<"0", "0", ":", "5", "9">>
              /\ arg_seconds = 6000 => t = <<"1", "0", "0", ":", "0", "0">>
      ]_vars

\* the helper was called with 6000 seconds and gave "100:00"
FormattedHundredMinutes ==
    /\ arg_seconds = 6000
    /\ ret_timestamp = << <<"1", "0", "0", ":", "0", "0">> >>

\* C19: after a downloader build() the result list has exactly one record for
\* each conversation of the full-id index, in index order, none from an
\* earlier build or another downloader, and the build fetched the detail of
\* each of those conversations exactly once.
ResultIsThisBuildsRecords ==
    [][\A d \in 1..Len(downloaders) :
         DownloaderBuild(d) =>
            /\ Len(conversation_details') = Len(conversations'.keys)
            /\ \A k \in 1..Len(conversation_details') :
                  k <= Len(conversations'.keys)
                     => conversation_details'[k].conversation_id = conversations'.keys[k]
            /\ detail_requests' = conversations'.keys
      ]_vars

\* C20: set_agent_group and set_all_agents leave the catalog as it is: what
\* get_all_agent_ids() and get_agent_group_ids(g), for every g, give after the
\* call is what they gave before it.
SelectionLeavesCatalogAlone ==
    [][\A u \in 1..Len(updaters) :
         (SetAllAgents(u) \/ \E g \in Range(AgentGroup) : SetAgentGroup(u, g)) =>
            /\ get_all_agent_ids(updaters[u].connection)'
                  = get_all_agent_ids(updaters[u].connection)
            /\ \A g \in Range(AgentGroup) :
                  get_agent_group_ids(updaters[u].connection, g)'
                     = get_agent_group_ids(updaters[u].connection, g)
      ]_vars

\* C21: the first conversations.list() request of every build() has no
\* cursor parameter, whatever builds ran before it in the process.
FirstRequestHasNoCursor ==
    [][\A i \in 1..Len(connections) :
         Build(i) =>
            /\ requests' # <<>>
            /\ "cursor" \notin DOMAIN requests'[1]
      ]_vars

\* no element occurs twice in the list
NoDuplicates(list) == \A j, k \in 1..Len(list) : list[j] = list[k] => j = k

\* the catalogs of the process: those of the aggregators and of the updaters
Catalogs ==
    {connections[i].agent_connection[1] :
        i \in {j \in 1..Len(connections) : connections[j].agent_connection # <<>>}}
    \cup {updaters[u].connection : u \in 1..Len(updaters)}

\* C22: in every state get_all_agent_ids() of a catalog lists each agent id
\* once, its ids are the keys of get_all_agents(), and no agent id occurs twice
\* in get_agent_group_ids(g), for every group g, however many catalogs the
\* process constructed.
CatalogIdsAreUnique ==
    \A catalog \in Catalogs :
       /\ NoDuplicates(get_all_agent_ids(catalog))
       /\ Range(get_all_agent_ids(catalog)) = DOMAIN get_all_agents(catalog)
       /\ \A g \in Range(AgentGroup) : NoDuplicates(get_agent_group_ids(catalog, g))

\* C23: after build() get_all_conversation_ids() has no id twice and its
\* elements are exactly the keys of get_all_conversations_info(), also when
\* build() ran before in the process.
AllIdsListMatchesIndexKeys ==
    [][\A i \in 1..Len(connections) :
         Build(i) =>
            /\ NoDuplicates(get_all_conversation_ids(i)')
            /\ Range(get_all_conversation_ids(i)') = Range(get_all_conversations_info(i)'.keys)
      ]_vars

====
